---- MODULE Spec2Model ----
(***************************************************************************)
(* Model of the account pool and the smart view allocator of the           *)
(* TennisStats scraper (src/src/runner.ts, second half: AccountPool and    *)
(* ViewAllocator), with the tennisstats_accounts table it reads and        *)
(* writes, and of run(), the cookie-mode entry point of the same file.     *)
(*                                                                         *)
(* Account ids are naturals (strings in the source), dates are day         *)
(* numbers (YYYY-MM-DD strings in the source, compared with === only),     *)
(* serialized cookies are naturals >= 1 and 0 stands for null.             *)
(***************************************************************************)
EXTENDS Integers, Sequences, FiniteSets, TLC

\* ------------------------------------------------------------------ bounds
\* ids of the rows of the tennisstats_accounts table
RowIds == {1, 2}
\* how far past maxViews the model lets viewsUsedToday grow (the code has no cap)
MaxOver == 1
\* distinct tokens (serialized cookie strings) a login of one account can produce
NumCookies == 1

\* longest ranked queue handed to the scheduler
MaxItems == 4
\* most matches of a day handed to allocateViews
MaxMatches == 3
\* longest ranked queue of a run in which nothing fails
MaxLongQueue == 8
\* most upcoming matches with an h2hUrl on the day's homepage
MaxUpcoming == 4
\* the calls of upsertH2H while one allocateViews runs
MaxUpserts == 1

\* ------------------------------------------------------- program constants
\* private VIEWS_PER_ACCOUNT = 3
VIEWS_PER_ACCOUNT == 3
\* getNextAvailableAccount's "|| null", and a null session_cookies column
NoAccount == 0
NoCookies == 0

\* an id that is in no row of the table
ForeignId == Cardinality(RowIds) + 1
CallIds == RowIds \cup {ForeignId}

\* a session: the token a login returned together with the id of the account
\* that logged in, as one value (NoCookies is no session)
SessionOf(token, accountId) == token * (ForeignId + 1) + accountId
\* the id of the account that produced the session
SessionCredential(session) == session % (ForeignId + 1)
\* the sessions the logins of one account can produce
SessionsOf(accountId) == {SessionOf(token, accountId) : token \in 1..NumCookies}
\* the sessions there are: what saveCookies can be handed and a session_cookies
\* column can hold
CookieValues == UNION {SessionsOf(accountId) : accountId \in RowIds}

VARIABLES
    store,      \* the is_active rows of tennisstats_accounts, in the order the select returns them
    today,      \* the current calendar day (new Date().toISOString().split('T')[0])
    accounts,   \* AccountPool.accounts
    lastOp,     \* the last step of a call on the pool and how it ended
    inflight,   \* the requests of the pool the table has not answered or applied yet
    sched,      \* the state of the rotation scheduler's run
    sc,         \* the allocator's inputs (matches, tennis_h2h rows, clock) and results
    proc        \* the process executing run(): its position, its locals and the scraper's browser

poolVars == <<store, today, accounts, lastOp, inflight>>
vars == <<store, today, accounts, lastOp, inflight, sched, sc, proc>>

\* ------------------------------------------------------------- AccountPool

\* the row -> AccountState mapping of loadAccounts
MapRow(row, day) ==
    [ id             |-> row.id,
      viewsUsedToday |-> IF row.last_reset_date = day THEN row.views_used_today ELSE 0,
      maxViews       |-> VIEWS_PER_ACCOUNT,
      lastResetDate  |-> day,
      cookies        |-> row.session_cookies ]

\* a plausible slip: the stored count is kept whatever the stored date
loadAccountsNoReset(rows, day) ==
    [ i \in 1..Len(rows) |->
        [ MapRow(rows[i], day) EXCEPT !.viewsUsedToday = rows[i].views_used_today ] ]

\* this.accounts after a successful loadAccounts()
loadAccounts(rows, day) ==
    [ i \in 1..Len(rows) |-> MapRow(rows[i], day) ]

RECURSIVE ReduceAvailable(_, _)
\* accounts.reduce((sum, acc) => sum + (acc.maxViews - acc.viewsUsedToday), sum0)
ReduceAvailable(accs, sum) ==
    IF accs = <<>> THEN sum
    ELSE ReduceAvailable(Tail(accs), sum + (Head(accs).maxViews - Head(accs).viewsUsedToday))

\* a plausible slip: the total is re-read from the table instead of this.accounts
getTotalFromStore(accs) ==
    LET RECURSIVE FromRows(_)
        FromRows(n) ==
            IF n = 0 THEN 0
            ELSE FromRows(n - 1) + (VIEWS_PER_ACCOUNT - store[n].views_used_today)
    IN  IF accs = <<>> THEN 0 ELSE FromRows(Len(store))

getTotalAvailableViews(accs) == ReduceAvailable(accs, 0)

HasViewsLeft(acc) == acc.viewsUsedToday < acc.maxViews

RECURSIVE FindAvailableFrom(_, _)
\* accounts.find((acc) => acc.viewsUsedToday < acc.maxViews) as a position:
\* the first i >= from whose account passes the test, NoAccount when none does
FindAvailableFrom(accs, from) ==
    IF from > Len(accs) THEN NoAccount
    ELSE IF HasViewsLeft(accs[from]) THEN from
    ELSE FindAvailableFrom(accs, from + 1)

\* a plausible slip: least-used-first instead of first-fit
getNextLeastUsed(accs) ==
    IF \A i \in 1..Len(accs) : ~HasViewsLeft(accs[i]) THEN NoAccount
    ELSE CHOOSE i \in 1..Len(accs) :
            /\ HasViewsLeft(accs[i])
            /\ \A j \in 1..Len(accs) :
                  HasViewsLeft(accs[j]) =>
                      \/ accs[i].viewsUsedToday < accs[j].viewsUsedToday
                      \/ (accs[i].viewsUsedToday = accs[j].viewsUsedToday /\ i <= j)

\* a plausible slip: <= for <, an exhausted account is still handed out
getNextAtOrBelowMax(accs) ==
    IF \A i \in 1..Len(accs) : accs[i].viewsUsedToday > accs[i].maxViews THEN NoAccount
    ELSE CHOOSE i \in 1..Len(accs) :
            /\ accs[i].viewsUsedToday <= accs[i].maxViews
            /\ \A j \in 1..(i - 1) : accs[j].viewsUsedToday > accs[j].maxViews

\* the position in this.accounts of the account returned, NoAccount for null
getNextAvailableAccount(accs) == FindAvailableFrom(accs, 1)

RECURSIVE FindIdFrom(_, _, _)
\* accounts.find((a) => a.credentials.id === accountId) as a position
FindIdFrom(accs, from, accountId) ==
    IF from > Len(accs) THEN NoAccount
    ELSE IF accs[from].id = accountId THEN from
    ELSE FindIdFrom(accs, from + 1, accountId)

FindAccount(accs, accountId) == FindIdFrom(accs, 1, accountId)

\* a plausible slip: an unknown id falls back to the first account
consumeViewFallback(accs, accountId) ==
    LET f == FindAccount(accs, accountId)
        i == IF f = NoAccount /\ Len(accs) > 0 THEN 1 ELSE f IN
    IF i = NoAccount THEN accs
    ELSE [accs EXCEPT ![i].viewsUsedToday = @ + 1]

\* a plausible slip: the increment is lost (post-increment of a copy)
consumeViewNoIncrement(accs, accountId) == accs

\* this.accounts after consumeView(accountId)
consumeView(accs, accountId) ==
    LET i == FindAccount(accs, accountId) IN
    IF i = NoAccount THEN accs
    ELSE [accs EXCEPT ![i].viewsUsedToday = @ + 1]

\* a plausible slip: the cookies go to the table only, the pool keeps the old ones
saveCookiesStoreOnly(accs, accountId, cookies) == accs

\* a plausible slip: the account is replaced by a fresh state holding the cookies
saveCookiesFreshState(accs, accountId, cookies) ==
    LET i == FindAccount(accs, accountId) IN
    IF i = NoAccount THEN accs
    ELSE [accs EXCEPT ![i].cookies = cookies, ![i].viewsUsedToday = 0]

\* this.accounts after saveCookies(accountId, cookies)
saveCookies(accs, accountId, cookies) ==
    LET i == FindAccount(accs, accountId) IN
    IF i = NoAccount THEN accs
    ELSE [accs EXCEPT ![i].cookies = cookies]

\* forceExhaust(id) of the design: viewsUsedToday = maxViews for the account of
\* that id, at once and in memory; the source's AccountPool has no such method
forceExhaust(accs, accountId) ==
    LET i == FindAccount(accs, accountId) IN
    IF i = NoAccount THEN accs
    ELSE [accs EXCEPT ![i].viewsUsedToday = accs[i].maxViews]

\* .update({views_used_today, last_reset_date}).eq('id', accountId)
UpdateViews(rows, accountId, used, resetDate) ==
    [ i \in 1..Len(rows) |->
        IF rows[i].id = accountId
        THEN [rows[i] EXCEPT !.views_used_today = used, !.last_reset_date = resetDate]
        ELSE rows[i] ]

\* .update({session_cookies: cookies}).eq('id', accountId)
UpdateCookies(rows, accountId, cookies) ==
    [ i \in 1..Len(rows) |->
        IF rows[i].id = accountId
        THEN [rows[i] EXCEPT !.session_cookies = cookies]
        ELSE rows[i] ]

\* a request of the pool on its way: the rows a select has read, or the payload
\* of an update (built before the await)
SelectRequest(rows) ==
    [ kind |-> "select", rows |-> rows, id |-> NoAccount, used |-> 0, date |-> 0,
      cookies |-> NoCookies ]
ViewsUpdate(accountId, used, resetDate) ==
    [ kind |-> "views", rows |-> <<>>, id |-> accountId, used |-> used,
      date |-> resetDate, cookies |-> NoCookies ]
CookiesUpdate(accountId, cookies) ==
    [ kind |-> "cookies", rows |-> <<>>, id |-> accountId, used |-> 0, date |-> 0,
      cookies |-> cookies ]

\* a call of that kind is suspended at its await; the callers the model lets in
\* overlap calls of different methods and await a method before calling it again
InFlight(kind) == \E r \in inflight : r.kind = kind

\* the update consumeView(accountId) sends: none for an id the pool does not
\* hold, else the count just incremented and the account's lastResetDate
consumeViewRequests(accs, accountId) ==
    LET i == FindAccount(accs, accountId) IN
    IF i = NoAccount THEN {}
    ELSE {ViewsUpdate(accountId, accs[i].viewsUsedToday + 1, accs[i].lastResetDate)}

\* the table after an awaited consumeView(accountId); ok = the update reached
\* the table (supabase-js resolves with {error} on a failed write, and the code
\* drops it)
consumeViewStore(rows, accs, accountId, ok) ==
    LET i == FindAccount(accs, accountId) IN
    IF i = NoAccount \/ ~ok THEN rows
    ELSE UpdateViews(rows, accountId, accs[i].viewsUsedToday + 1, accs[i].lastResetDate)

\* the table after saveCookies(accountId, cookies)
saveCookiesStore(rows, accountId, cookies, ok) ==
    IF ok THEN UpdateCookies(rows, accountId, cookies) ELSE rows

\* ------------------------------------------------------------------- state

\* no scheduler run is under way
SchedIdle == [state |-> "Idle"]
\* the allocator has been given nothing
ScoreIdle == [phase |-> "idle"]
\* run() has not been entered
ProcIdle == [pc |-> "idle"]

StoredRow(i) ==
    [ id : {i},
      views_used_today : 0..VIEWS_PER_ACCOUNT,
      last_reset_date : {0, 1},
      session_cookies : {NoCookies} ]

\* the stored counts the session calls are run over
SessionRowCounts == {VIEWS_PER_ACCOUNT - 1, VIEWS_PER_ACCOUNT}

Op(name, id, arg, ok) == [op |-> name, id |-> id, arg |-> arg, ok |-> ok]

\* the pool as constructed (accounts = []), over any table of the day
InitPool ==
    /\ store \in [1..Cardinality(RowIds) -> UNION {StoredRow(i) : i \in RowIds}]
    /\ \A i \in DOMAIN store : store[i].id = i
    /\ today = 1
    /\ accounts = <<>>
    /\ lastOp = Op("new", NoAccount, NoCookies, TRUE)
    /\ inflight = {}

Init ==
    /\ InitPool
    /\ sched = SchedIdle
    /\ proc = ProcIdle
    /\ sc = ScoreIdle

\* loadAccounts() is called: the select goes out and the table answers it with
\* its rows; loadAccounts is suspended at its await
LoadAccounts ==
    /\ ~InFlight("select")
    /\ inflight' = inflight \cup {SelectRequest(store)}
    /\ lastOp' = Op("loadCall", NoAccount, NoCookies, TRUE)
    /\ UNCHANGED <<store, today, accounts, sched, sc, proc>>

\* loadAccounts() resumes with the rows of its select and sets this.accounts
LoadAccountsResumes ==
    \E r \in inflight :
        /\ r.kind = "select"
        /\ accounts' = loadAccounts(r.rows, today)
        /\ inflight' = inflight \ {r}
        /\ lastOp' = Op("load", NoAccount, NoCookies, TRUE)
        /\ UNCHANGED <<store, today, sched, sc, proc>>

\* loadAccounts() resumes with the error its select was answered with: it throws
\* before this.accounts is set
LoadAccountsFails ==
    \E r \in inflight :
        /\ r.kind = "select"
        /\ inflight' = inflight \ {r}
        /\ lastOp' = Op("load", NoAccount, NoCookies, FALSE)
        /\ UNCHANGED <<store, today, accounts, sched, sc, proc>>

\* consumeView(accountId) is called: the count goes up in memory, the update
\* goes out and consumeView is suspended at its await
ConsumeView ==
    \E accountId \in CallIds :
        /\ \A i \in 1..Len(accounts) :
              accounts[i].id = accountId =>
                  accounts[i].viewsUsedToday < VIEWS_PER_ACCOUNT + MaxOver
        /\ ~InFlight("views")
        /\ accounts' = consumeView(accounts, accountId)
        /\ inflight' = inflight \cup consumeViewRequests(accounts, accountId)
        /\ lastOp' = Op("consume", accountId, NoCookies, TRUE)
        /\ UNCHANGED <<store, today, sched, sc, proc>>

\* the table applies (ok) or refuses an update of consumeView, which returns
ConsumeViewWrite ==
    \E r \in inflight, ok \in BOOLEAN :
        /\ r.kind = "views"
        /\ store' = IF ok THEN UpdateViews(store, r.id, r.used, r.date) ELSE store
        /\ inflight' = inflight \ {r}
        /\ lastOp' = Op("consumeDone", r.id, NoCookies, ok)
        /\ UNCHANGED <<today, accounts, sched, sc, proc>>

\* saveCookies(accountId, cookies) is called, with any session for any id: the
\* cookies are set in memory, the update goes out and saveCookies is suspended
\* at its await
SaveCookies ==
    \E accountId \in CallIds, cookies \in CookieValues :
        /\ ~InFlight("cookies")
        /\ accounts' = saveCookies(accounts, accountId, cookies)
        /\ inflight' = inflight \cup {CookiesUpdate(accountId, cookies)}
        /\ lastOp' = Op("save", accountId, cookies, TRUE)
        /\ UNCHANGED <<store, today, sched, sc, proc>>

\* the table applies (ok) or refuses an update of saveCookies, which returns
SaveCookiesWrite ==
    \E r \in inflight, ok \in BOOLEAN :
        /\ r.kind = "cookies"
        /\ store' = saveCookiesStore(store, r.id, r.cookies, ok)
        /\ inflight' = inflight \ {r}
        /\ lastOp' = Op("saveDone", r.id, r.cookies, ok)
        /\ UNCHANGED <<today, accounts, sched, sc, proc>>

\* forceExhaust(accountId)
ForceExhaust ==
    \E accountId \in CallIds :
        /\ accounts' = forceExhaust(accounts, accountId)
        /\ lastOp' = Op("exhaust", accountId, NoCookies, TRUE)
        /\ UNCHANGED <<inflight, store, today, sched, sc, proc>>

Next ==
    \/ LoadAccounts
    \/ LoadAccountsResumes
    \/ LoadAccountsFails
    \/ ConsumeView
    \/ ConsumeViewWrite
    \/ SaveCookies
    \/ SaveCookiesWrite

Spec == Init /\ [][Next]_vars

\* the quota calls alone: load, and the views spent since
NextQuota ==
    \/ LoadAccounts
    \/ LoadAccountsResumes
    \/ LoadAccountsFails
    \/ ConsumeView
    \/ ConsumeViewWrite

SpecQuota == Init /\ [][NextQuota]_vars

\* the session calls alone: load, and the cookies saved after a login
NextSession ==
    \/ LoadAccounts
    \/ LoadAccountsResumes
    \/ LoadAccountsFails
    \/ SaveCookies
    \/ SaveCookiesWrite

\* the pool as constructed over a table whose accounts have spent views today,
\* some of them all
InitSession ==
    /\ Init
    /\ \A i \in DOMAIN store :
          /\ store[i].views_used_today \in SessionRowCounts
          /\ store[i].last_reset_date = today

SpecSession == InitSession /\ [][NextSession]_vars

\* the pool's quota calls interleaved with forceExhaust
NextExhaust ==
    \/ LoadAccounts
    \/ LoadAccountsResumes
    \/ ConsumeView
    \/ ConsumeViewWrite
    \/ ForceExhaust

SpecExhaust == Init /\ [][NextExhaust]_vars

\* ------------------------------------------------------ rotation scheduler
\* The execution loop of the design (states NoCredential, AwaitingSession, Ready,
\* Done) over the source's pool: it reaches the pool only through
\* loadAccounts, getNextAvailableAccount, consumeView, saveCookies and
\* forceExhaust. The source holds no such loop.

\* the run's state once the pool is loaded and the ranked queue of n items is in hand
RunStarted(accs, n) ==
    [ state         |-> IF n = 0 THEN "Done" ELSE "NoCredential",
      outcome       |-> IF n = 0 THEN "success" ELSE "running",
      queue         |-> [i \in 1..n |-> i],
      cred          |-> NoAccount,
      session       |-> NoCookies,
      sink          |-> <<>>,
      attempts      |-> 0,
      errors        |-> 0,
      rotations     |-> 0,
      loginFailures |-> 0,
      limitsReached |-> 0,
      failed        |-> {},
      dropped       |-> {},
      startTotal    |-> getTotalAvailableViews(accs) ]

\* the pool as the run asks it for a candidate: a credential the run has
\* abandoned is passed over as one without views left; the pool's own counts are
\* not touched (the credential is not marked exhausted)
WithoutAbandoned(accs, abandoned) ==
    [i \in DOMAIN accs |->
        IF i \in abandoned
        THEN [accs[i] EXCEPT !.viewsUsedToday = IF @ < accs[i].maxViews
                                                THEN accs[i].maxViews ELSE @]
        ELSE accs[i]]

\* a plausible slip: nextAvailable() is asked as it is, and answers with the
\* credential whose login has just failed
NextCandidateNoSkip(accs, abandoned) == getNextAvailableAccount(accs)

\* nextAvailable() for the run: the first credential, in load order, with views
\* left that the run has not abandoned
NextCandidate(accs, abandoned) ==
    getNextAvailableAccount(WithoutAbandoned(accs, abandoned))

\* a plausible slip: a run that finds no credential reports success
PickCredentialReportsSuccess(s, accs) ==
    LET c == NextCandidate(accs, s.failed) IN
    IF c = NoAccount
    THEN [s EXCEPT !.state = "Done", !.outcome = "success",
                   !.cred = NoAccount, !.session = NoCookies]
    ELSE [s EXCEPT !.state = "AwaitingSession", !.cred = c, !.session = NoCookies,
                   !.rotations = IF s.cred # NoAccount /\ s.cred # c THEN @ + 1 ELSE @]

\* transition 1 (Start): ask the pool for a credential; none -> Done
PickCredential(s, accs) ==
    LET c == NextCandidate(accs, s.failed) IN
    IF c = NoAccount
    THEN [s EXCEPT !.state = "Done", !.outcome = "partial",
                   !.cred = NoAccount, !.session = NoCookies]
    ELSE [s EXCEPT !.state = "AwaitingSession", !.cred = c, !.session = NoCookies,
                   !.rotations = IF s.cred # NoAccount /\ s.cred # c THEN @ + 1 ELSE @]

\* after the queue moved past an item: Done when it is empty
AfterAdvance(s) ==
    IF s.queue = <<>> THEN [s EXCEPT !.state = "Done", !.outcome = "success"] ELSE s

\* run(): load the pool, take the ranked queue
RunBegin ==
    /\ sched.state = "Idle"
    /\ \E n \in 0..MaxItems :
          /\ accounts' = loadAccounts(store, today)
          /\ sched' = RunStarted(accounts', n)
    /\ lastOp' = Op("load", NoAccount, NoCookies, TRUE)
    /\ UNCHANGED <<inflight, store, today, sc, proc>>

\* run(): the pool cannot be loaded (PoolUnavailable), nothing is scheduled
RunBeginFails ==
    /\ sched.state = "Idle"
    /\ sched' = [state |-> "Aborted"]
    /\ lastOp' = Op("load", NoAccount, NoCookies, FALSE)
    /\ UNCHANGED <<inflight, store, today, accounts, sc, proc>>

\* transition 1
Start ==
    /\ sched.state = "NoCredential"
    /\ sched' = PickCredential(sched, accounts)
    /\ UNCHANGED <<store, today, accounts, lastOp, inflight, sc, proc>>

\* transition 2, the credential carries a cached session: reuse it
ReuseSession ==
    /\ sched.state = "AwaitingSession"
    /\ accounts[sched.cred].cookies # NoCookies
    /\ sched' = [sched EXCEPT !.state = "Ready", !.session = accounts[sched.cred].cookies]
    /\ UNCHANGED <<store, today, accounts, lastOp, inflight, sc, proc>>

\* transition 2, login succeeds: saveSession, then Ready
LoginSucceeds ==
    /\ sched.state = "AwaitingSession"
    /\ accounts[sched.cred].cookies = NoCookies
    /\ \E cookies \in SessionsOf(accounts[sched.cred].id), ok \in BOOLEAN :
          /\ accounts' = saveCookies(accounts, accounts[sched.cred].id, cookies)
          /\ store' = saveCookiesStore(store, accounts[sched.cred].id, cookies, ok)
          /\ lastOp' = Op("save", accounts[sched.cred].id, cookies, ok)
          /\ sched' = [sched EXCEPT !.state = "Ready", !.session = cookies]
    /\ UNCHANGED <<inflight, today, sc, proc>>

\* transition 2, login fails: no quota is consumed, the credential is abandoned
\* for the run and the next candidate is taken, Done when there is none
LoginFails ==
    /\ sched.state = "AwaitingSession"
    /\ accounts[sched.cred].cookies = NoCookies
    /\ sched' = PickCredential([sched EXCEPT !.loginFailures = @ + 1,
                                             !.failed = @ \cup {sched.cred}], accounts)
    /\ UNCHANGED <<store, today, accounts, lastOp, inflight, sc, proc>>

\* transition 3, Success: record, consume, advance; an exhausted credential is left
FetchSuccess ==
    /\ sched.state = "Ready"
    /\ \E ok \in BOOLEAN :
          LET id == accounts[sched.cred].id
              s1 == [sched EXCEPT !.attempts = @ + 1,
                                  !.sink = Append(@, Head(sched.queue)),
                                  !.queue = Tail(@)]
          IN
          /\ accounts' = consumeView(accounts, id)
          /\ store' = consumeViewStore(store, accounts, id, ok)
          /\ lastOp' = Op("consume", id, NoCookies, ok)
          /\ sched' =
                IF s1.queue = <<>> THEN AfterAdvance(s1)
                ELSE IF HasViewsLeft(accounts'[sched.cred]) THEN s1
                ELSE [s1 EXCEPT !.state = "NoCredential", !.session = NoCookies,
                                !.dropped = @ \cup {sched.session}]
    /\ UNCHANGED <<inflight, today, sc, proc>>

\* transition 3, LimitReached: forceExhaust, drop the session, keep the item
FetchLimitReached ==
    /\ sched.state = "Ready"
    /\ accounts' = forceExhaust(accounts, accounts[sched.cred].id)
    /\ lastOp' = Op("exhaust", accounts[sched.cred].id, NoCookies, TRUE)
    /\ sched' = [sched EXCEPT !.attempts = @ + 1,
                              !.limitsReached = @ + 1,
                              !.failed = @ \cup {sched.cred},
                              !.dropped = @ \cup {sched.session},
                              !.state = "NoCredential", !.session = NoCookies]
    /\ UNCHANGED <<inflight, store, today, sc, proc>>

\* a plausible slip: a fetch that failed is charged to the credential
FetchTransientErrorCharged ==
    /\ sched.state = "Ready"
    /\ accounts' = consumeView(accounts, accounts[sched.cred].id)
    /\ sched' = AfterAdvance([sched EXCEPT !.attempts = @ + 1,
                                           !.errors = @ + 1,
                                           !.queue = Tail(@)])
    /\ UNCHANGED <<store, today, lastOp, inflight, sc, proc>>

\* transition 3, TransientError: count it, move past the item, keep the credential
FetchTransientError ==
    /\ sched.state = "Ready"
    /\ sched' = AfterAdvance([sched EXCEPT !.attempts = @ + 1,
                                           !.errors = @ + 1,
                                           !.queue = Tail(@)])
    /\ UNCHANGED <<store, today, accounts, lastOp, inflight, sc, proc>>

NextRun ==
    \/ RunBegin
    \/ RunBeginFails
    \/ Start
    \/ ReuseSession
    \/ LoginSucceeds
    \/ LoginFails
    \/ FetchSuccess
    \/ FetchLimitReached
    \/ FetchTransientError

\* a table as runs of the scheduler leave it during the day: counts within
\* 0..maxViews stored today, with or without a cached session of the account
InitRun ==
    /\ store \in [1..Cardinality(RowIds) ->
                    [ id : RowIds,
                      views_used_today : 0..VIEWS_PER_ACCOUNT,
                      last_reset_date : {1},
                      session_cookies : {NoCookies} \cup CookieValues ]]
    /\ \A i \in DOMAIN store :
          /\ store[i].id = i
          /\ store[i].session_cookies \in {NoCookies} \cup SessionsOf(i)
    /\ today = 1
    /\ accounts = <<>>
    /\ lastOp = Op("new", NoAccount, NoCookies, TRUE)
    /\ inflight = {}
    /\ sched = SchedIdle
    /\ proc = ProcIdle
    /\ sc = ScoreIdle

SpecRun == InitRun /\ [][NextRun]_vars

\* the loop is sequential and never waits on anything but the call in hand: a
\* run that can take a step takes one
SpecRunFair == InitRun /\ [][NextRun]_vars /\ WF_vars(NextRun)

\* run() over a longer queue
RunBeginLong ==
    /\ sched.state = "Idle"
    /\ \E n \in 0..MaxLongQueue :
          /\ accounts' = loadAccounts(store, today)
          /\ sched' = RunStarted(accounts', n)
    /\ lastOp' = Op("load", NoAccount, NoCookies, TRUE)
    /\ UNCHANGED <<inflight, store, today, sc, proc>>

\* the runs in which every login and every fetch succeeds
NextRunAllSucceed ==
    \/ RunBeginLong
    \/ Start
    \/ ReuseSession
    \/ LoginSucceeds
    \/ FetchSuccess

SpecRunAllSucceed == InitRun /\ [][NextRunAllSucceed]_vars

\* ----------------------------------------------------------- ViewAllocator
\* Odds are decimal odds of two places, from 1.00 up, written in hundredths
\* (1.85 is 185); the code holds them as IEEE-754 doubles. Timestamps and the
\* clock are in whole days.

\* a null ranking or null odds (number | null in DailyMatch)
Null == -1
\* .single() found no tennis_h2h row for the key: data is null
NoRow == -1

\* tournament names, with what tournament.toLowerCase().includes(..) answers
Tournaments == {"Rotterdam ATP", "Lille ATP Challenger", "ITF M25 Antalya", "Wimbledon"}
IncludesAtpOrWta(t) == t \in {"Rotterdam ATP", "Lille ATP Challenger"}
IncludesChall(t) == t \in {"Lille ATP Challenger"}
IncludesItf(t) == t \in {"ITF M25 Antalya"}

\* JavaScript truthiness of a number | null: null and 0 are falsy
Truthy(v) == v # Null /\ v # 0
\* v || d
OrElse(v, d) == IF Truthy(v) THEN v ELSE d
Min(a, b) == IF a <= b THEN a ELSE b
Max(a, b) == IF a >= b THEN a ELSE b

RECURSIVE Pow2Mod(_, _)
\* 2^k modulo m
Pow2Mod(k, m) == IF k = 0 THEN 1 % m ELSE (2 * Pow2Mod(k - 1, m)) % m

\* the binary exponent of the odds d/100: 2^e <= d/100 < 2^(e+1)
BinaryExponent(d) == CHOOSE e \in 0..6 : 100 * 2^e <= d /\ d < 100 * 2^(e + 1)

\* The double nearest d/100 is m * 2^(e-52), m the integer nearest
\* d * 2^(52-e) / 100. RoundingError(d) is 100 * m - d * 2^(52-e): how far the
\* double lies from d/100, in units of 2^(e-52) / 100 (never a tie).
RoundingError(d) ==
    LET r == ((d % 100) * Pow2Mod(52 - BinaryExponent(d), 100)) % 100 IN
    IF r < 50 THEN -r ELSE 100 - r

\* Math.abs(o1 - o2) < limit on doubles, limit one of 0.5, 1.0, 2.0 (exact as
\* doubles): where the decimal difference is the limit itself, the rounding of
\* the two operands decides (2.30 - 1.80 is 0.4999999999999998)
OddsDiffBelow(o1, o2, limit) ==
    LET hi == Max(o1, o2)
        lo == Min(o1, o2) IN
    IF hi - lo # limit THEN hi - lo < limit
    ELSE RoundingError(hi) * 2^BinaryExponent(hi)
            < RoundingError(lo) * 2^BinaryExponent(lo)

\* daysSince(dateStr) at clock now: (now - then) / (1000 * 60 * 60 * 24)
daysSince(updatedAt, now) == now - updatedAt

TierBonus(match) ==
    IF IncludesAtpOrWta(match.tournament)
    THEN (IF ~IncludesChall(match.tournament) THEN 40 ELSE 15)
    ELSE IF IncludesItf(match.tournament) THEN 5
    ELSE 20

\* a plausible slip: a missing ranking defaults to 0, the top of the scale
RankingBonusDefaultZero(match) ==
    LET bestRanking == Min(OrElse(match.player1.ranking, 0),
                           OrElse(match.player2.ranking, 0)) IN
    IF bestRanking <= 10 THEN 30
    ELSE IF bestRanking <= 30 THEN 20
    ELSE IF bestRanking <= 50 THEN 15
    ELSE IF bestRanking <= 100 THEN 10
    ELSE 0

RankingBonus(match) ==
    LET bestRanking == Min(OrElse(match.player1.ranking, 999),
                           OrElse(match.player2.ranking, 999)) IN
    IF bestRanking <= 10 THEN 30
    ELSE IF bestRanking <= 30 THEN 20
    ELSE IF bestRanking <= 50 THEN 15
    ELSE IF bestRanking <= 100 THEN 10
    ELSE 0

CloseOddsBonus(match) ==
    IF Truthy(match.player1.odds) /\ Truthy(match.player2.odds)
    THEN IF OddsDiffBelow(match.player1.odds, match.player2.odds, 50) THEN 25
         ELSE IF OddsDiffBelow(match.player1.odds, match.player2.odds, 100) THEN 15
         ELSE IF OddsDiffBelow(match.player1.odds, match.player2.odds, 200) THEN 5
         ELSE 0
    ELSE 0

FormVarianceBonus(match) ==
    IF Truthy(match.player1.odds) /\ Truthy(match.player2.odds)
    THEN LET formFavorsP1 == match.player1.formScore > match.player2.formScore
             oddsFavorP1 == match.player1.odds < match.player2.odds IN
         IF formFavorsP1 # oddsFavorP1 THEN 20 ELSE 0
    ELSE 0

\* a plausible slip: the bonuses of the never-scraped and the stale case exchanged
CacheBonusExchanged(cached, now) ==
    IF cached = NoRow THEN 10
    ELSE IF daysSince(cached, now) > 30 THEN 15
    ELSE -20

\* cached: the updated_at of the tennis_h2h row of the match's key, or NoRow
CacheBonus(cached, now) ==
    IF cached = NoRow THEN 15
    ELSE IF daysSince(cached, now) > 30 THEN 10
    ELSE -20

StatusBonus(match) ==
    (IF match.status = "upcoming" THEN 10 ELSE 0)
        + (IF match.status = "finished" THEN -50 ELSE 0)

\* score just before "return Math.max(0, score)"
RawPriority(match, cached, now) ==
    TierBonus(match) + RankingBonus(match) + CloseOddsBonus(match)
        + FormVarianceBonus(match) + CacheBonus(cached, now) + StatusBonus(match)

\* a plausible slip: the sum is returned as it is
calculatePriorityUnclamped(match, cached, now) == RawPriority(match, cached, now)

calculatePriority(match, cached, now) == Max(0, RawPriority(match, cached, now))

\* the matches, cache rows and clock values the allocator is run on
Rankings == {Null, 0, 8, 25, 45, 90, 150}
OtherRankings == {Null, 30}
OddsValues == {Null, 130, 180, 230, 330}
FormScores == {3, 7}
Statuses == {"upcoming", "live", "finished"}
UpdatedAts == {0, 23}
Clock == {30, 31}

Matches ==
    [ tournament : Tournaments,
      player1 : [ranking : Rankings, formScore : FormScores, odds : OddsValues],
      player2 : [ranking : OtherRankings, formScore : FormScores, odds : OddsValues],
      status : Statuses ]

InitScore ==
    /\ InitPool
    /\ sched = SchedIdle
    /\ proc = ProcIdle
    /\ store = [i \in 1..Cardinality(RowIds) |->
                  [ id |-> i, views_used_today |-> 0, last_reset_date |-> today,
                    session_cookies |-> NoCookies ]]
    /\ sc \in [ phase : {"input"}, match : Matches,
                 cached : {NoRow} \cup UpdatedAts, now : {30}, score : {0}, at : {30} ]

\* calculatePriority(match), the lookup answering sc.cached at clock sc.now;
\* sc.at keeps the Date.now() this evaluation read
CalculatePriority ==
    /\ sc.phase \in {"input", "scored"}
    /\ sc' = [sc EXCEPT !.phase = "scored",
                        !.score = calculatePriority(sc.match, sc.cached, sc.now),
                        !.at = sc.now]
    /\ UNCHANGED <<store, today, accounts, lastOp, inflight, sched, proc>>

\* a day passes, before or between two evaluations or two lookups
ClockTick ==
    /\ sc.phase \in {"input", "scored", "scoring", "counting"}
    /\ sc.now + 1 \in Clock
    /\ sc' = [sc EXCEPT !.now = @ + 1]
    /\ UNCHANGED <<store, today, accounts, lastOp, inflight, sched, proc>>

NextScore ==
    \/ CalculatePriority
    \/ ClockTick

SpecScore == InitScore /\ [][NextScore]_vars

\* ------------------------------------------------------------ allocateViews

\* getPriorityReason(match, score): the reasons before join(', ')
getPriorityReason(match, score) ==
    LET high == IF score >= 80 THEN <<"High-value main tour match">> ELSE <<>>
        toss == IF Truthy(match.player1.odds) /\ Truthy(match.player2.odds)
                      /\ OddsDiffBelow(match.player1.odds, match.player2.odds, 50)
                THEN <<"Toss-up odds">> ELSE <<>>
        formFavorsP1 == match.player1.formScore > match.player2.formScore
        oddsFavorP1 == OrElse(match.player1.odds, 9900) < OrElse(match.player2.odds, 9900)
        form == IF formFavorsP1 # oddsFavorP1
                THEN <<"Form vs odds disagreement">> ELSE <<>>
        reasons == high \o toss \o form
    IN IF reasons = <<>> THEN <<"Standard priority">> ELSE reasons

\* the allocation pushed for the match at position key of the input (its h2hUrl
\* path stands for the position; the two slugs are left out)
AllocationOf(match, key, cached, now) ==
    LET priority == calculatePriority(match, cached, now) IN
    [ matchH2hPath      |-> key,
      priority          |-> priority,
      assignedAccountId |-> Null,
      reason            |-> getPriorityReason(match, priority) ]

\* the number of leading allocations of a sorted list that stay before a
RECURSIVE CountBefore(_, _, _)
CountBefore(sorted, a, strictly) ==
    IF sorted = <<>> THEN 0
    ELSE IF (IF strictly THEN Head(sorted).priority > a.priority
                         ELSE Head(sorted).priority >= a.priority)
         THEN 1 + CountBefore(Tail(sorted), a, strictly)
         ELSE 0

InsertAllocation(sorted, a, strictly) ==
    LET k == CountBefore(sorted, a, strictly) IN
    SubSeq(sorted, 1, k) \o <<a>> \o SubSeq(sorted, k + 1, Len(sorted))

\* a plausible slip: a sort that is not stable, equal priorities come out reversed
RECURSIVE SortByPriorityUnstable(_)
SortByPriorityUnstable(allocations) ==
    IF allocations = <<>> THEN <<>>
    ELSE InsertAllocation(
             SortByPriorityUnstable(SubSeq(allocations, 1, Len(allocations) - 1)),
             allocations[Len(allocations)], TRUE)

\* allocations.sort((a, b) => b.priority - a.priority): Array.prototype.sort is
\* stable, equal priorities keep their order
RECURSIVE SortByPriority(_)
SortByPriority(allocations) ==
    IF allocations = <<>> THEN <<>>
    ELSE InsertAllocation(
             SortByPriority(SubSeq(allocations, 1, Len(allocations) - 1)),
             allocations[Len(allocations)], FALSE)

\* calculateViewsNeeded(allocations).uncachedCount, the i-th lookup answering
\* data[i] (an updated_at or NoRow) and daysSince reading the clock at[i]
RECURSIVE calculateViewsNeeded(_, _, _)
calculateViewsNeeded(allocations, data, at) ==
    IF allocations = <<>> THEN 0
    ELSE (IF Head(data) = NoRow \/ daysSince(Head(data), Head(at)) > 7 THEN 1 ELSE 0)
             + calculateViewsNeeded(Tail(allocations), Tail(data), Tail(at))

\* a plausible slip: only the top availableViews allocations are returned
allocateViewsTruncated(sorted, availableViews) ==
    SubSeq(sorted, 1, Min(availableViews, Len(sorted)))

\* allocateViews(matches, availableViews): what it returns, sorted being its
\* allocations after the sort
allocateViews(sorted, availableViews) == sorted

\* the matches of a day the allocator is run on
DailyMatchOf(t, r1, r2, f1, f2, o1, o2, st) ==
    [ tournament |-> t,
      player1 |-> [ranking |-> r1, formScore |-> f1, odds |-> o1],
      player2 |-> [ranking |-> r2, formScore |-> f2, odds |-> o2],
      status |-> st ]

AllocMatches ==
    { DailyMatchOf("Rotterdam ATP", 8, 30, 7, 3, 190, 150, "upcoming"),
      DailyMatchOf("ITF M25 Antalya", Null, Null, 3, 3, Null, Null, "finished") }

\* the availableViews passed: pool.getTotalAvailableViews() of a nearly used up
\* pool
AvailableViews == {1}

\* the tennis_h2h row of a key when allocateViews is called: none, or one last
\* updated on day 0
CachedRows == {NoRow, 0}

SeqsUpTo(S, n) == UNION {[1..m -> S] : m \in 0..n}

\* a loaded pool, the day's matches and the tennis_h2h rows of their keys
InitAlloc ==
    /\ today = 1
    /\ store = [i \in 1..Cardinality(RowIds) |->
                  [ id |-> i, views_used_today |-> 0, last_reset_date |-> today,
                    session_cookies |-> NoCookies ]]
    /\ accounts = loadAccounts(store, today)
    /\ lastOp = Op("load", NoAccount, NoCookies, TRUE)
    /\ inflight = {}
    /\ sched = SchedIdle
    /\ proc = ProcIdle
    /\ \E matches \in SeqsUpTo(AllocMatches, MaxMatches) :
          \E cachedOf \in [1..Len(matches) -> CachedRows] :
             \E availableViews \in AvailableViews :
                sc = [ phase          |-> "allocInput",
                       matches        |-> matches,
                       cachedOf       |-> cachedOf,
                       availableViews |-> availableViews,
                       now            |-> 30,
                       pos            |-> 0,
                       served         |-> FALSE,
                       data           |-> NoRow,
                       upsert         |-> {},
                       upserts        |-> 0,
                       pushed         |-> <<>>,
                       allocations    |-> <<>>,
                       uncachedCount  |-> 0,
                       result         |-> <<>>,
                       allocating     |-> 0 ]

\* the end of allocateViews: the three log lines and "return allocations"
AllocReturn(s, allocations, uncachedCount) ==
    [s EXCEPT !.phase = "allocated",
              !.allocations = allocations,
              !.uncachedCount = uncachedCount,
              !.result = allocateViews(allocations, s.availableViews),
              !.allocating = Min(s.availableViews, uncachedCount)]

\* allocateViews(matches, availableViews) is called: it runs to its first
\* lookup; without matches there is no lookup and it runs to its return
AllocateViews ==
    /\ sc.phase = "allocInput"
    /\ sc' = IF sc.matches = <<>>
             THEN AllocReturn(sc, SortByPriority(<<>>), 0)
             ELSE [sc EXCEPT !.phase = "scoring"]
    /\ UNCHANGED <<store, today, accounts, lastOp, inflight, sched, proc>>

\* the key of the lookup allocateViews is suspended at
LookupKey(s) ==
    IF s.phase = "scoring" THEN s.pos + 1 ELSE s.allocations[s.pos + 1].matchH2hPath

\* the service handles the select of the lookup under way: it reads the row of
\* the key as it is now (ok), or refuses the request and data is null
LookupServed ==
    /\ sc.phase \in {"scoring", "counting"}
    /\ ~sc.served
    /\ \E ok \in BOOLEAN :
          sc' = [sc EXCEPT !.served = TRUE,
                           !.data = IF ok THEN sc.cachedOf[LookupKey(sc)] ELSE NoRow]
    /\ UNCHANGED <<store, today, accounts, lastOp, inflight, sched, proc>>

\* the answer of the lookup of calculatePriority arrives for the next match:
\* daysSince reads the clock, the allocation is pushed; after the last match the
\* allocations are sorted
PriorityLookup ==
    /\ sc.phase = "scoring"
    /\ sc.served
    /\ LET key    == sc.pos + 1
           pushed == Append(sc.pushed,
                            AllocationOf(sc.matches[key], key, sc.data, sc.now))
       IN  sc' = IF key < Len(sc.matches)
                 THEN [sc EXCEPT !.pos = key, !.pushed = pushed,
                                 !.served = FALSE, !.data = NoRow]
                 ELSE [sc EXCEPT !.phase = "counting", !.pos = 0, !.pushed = pushed,
                                 !.served = FALSE, !.data = NoRow,
                                 !.allocations = SortByPriority(pushed)]
    /\ UNCHANGED <<store, today, accounts, lastOp, inflight, sched, proc>>

\* the answer of the lookup of calculateViewsNeeded arrives for the next
\* allocation: daysSince reads the clock; after the last one allocateViews logs
\* and returns
ViewsNeededLookup ==
    /\ sc.phase = "counting"
    /\ sc.served
    /\ LET alloc == sc.allocations[sc.pos + 1]
           uncachedCount ==
               sc.uncachedCount
                   + calculateViewsNeeded(<<alloc>>, <<sc.data>>, <<sc.now>>)
           answered == [sc EXCEPT !.served = FALSE, !.data = NoRow]
       IN  sc' = IF sc.pos + 1 < Len(sc.allocations)
                 THEN [answered EXCEPT !.pos = @ + 1, !.uncachedCount = uncachedCount]
                 ELSE AllocReturn(answered, sc.allocations, uncachedCount)
    /\ UNCHANGED <<store, today, accounts, lastOp, inflight, sched, proc>>

\* TennisStatsDB.upsertH2H is called for one of the keys while allocateViews is
\* suspended at a lookup: updated_at is fixed to the current day and the upsert
\* goes out (one upsertH2H at a time, MaxUpserts in all)
UpsertH2HCall ==
    /\ sc.phase \in {"scoring", "counting"}
    /\ sc.upsert = {}
    /\ sc.upserts < MaxUpserts
    /\ \E key \in DOMAIN sc.cachedOf :
          sc' = [sc EXCEPT !.upsert = {[key |-> key, at |-> sc.now]},
                           !.upserts = @ + 1]
    /\ UNCHANGED <<store, today, accounts, lastOp, inflight, sched, proc>>

\* the service applies (ok) or refuses the upsert under way, upsertH2H returns
UpsertH2HApply ==
    /\ sc.phase \in {"scoring", "counting"}
    /\ \E u \in sc.upsert, ok \in BOOLEAN :
          sc' = [sc EXCEPT !.upsert = {},
                           !.cachedOf[u.key] = IF ok THEN u.at ELSE @]
    /\ UNCHANGED <<store, today, accounts, lastOp, inflight, sched, proc>>

\* the day's matches are allocated on a loaded pool
NextAlloc ==
    \/ AllocateViews
    \/ LookupServed
    \/ PriorityLookup
    \/ ViewsNeededLookup
    \/ UpsertH2HCall
    \/ UpsertH2HApply
    \/ ClockTick

SpecAlloc == InitAlloc /\ [][NextAlloc]_vars

\* ------------------------------------------------------ claims on the pool

UsedOf(accs) == [i \in DOMAIN accs |-> accs[i].viewsUsedToday]
QuotaOf(accs) ==
    [i \in DOMAIN accs |->
        <<accs[i].id, accs[i].viewsUsedToday, accs[i].maxViews, accs[i].lastResetDate>>]
StoredQuota(rows) ==
    [i \in DOMAIN rows |-> <<rows[i].id, rows[i].views_used_today, rows[i].last_reset_date>>]
RowOf(rows, accountId) == CHOOSE i \in DOMAIN rows : rows[i].id = accountId

\* C1: every account of the pool has 0 <= viewsUsedToday <= maxViews, in every
\* state reached by loadAccounts and consumeView calls.
QuotaWithinBounds ==
    \A i \in DOMAIN accounts :
        /\ 0 <= accounts[i].viewsUsedToday
        /\ accounts[i].viewsUsedToday <= accounts[i].maxViews

\* C2: in a run of the scheduler the items served never outnumber
\* getTotalAvailableViews at the start of the run, every fetch is issued in Ready
\* on a credential that has views left, and the scheduler goes to Done when
\* getNextAvailableAccount returns null.
ServedWithinQuota ==
    [][ /\ sched'.state \in {"NoCredential", "AwaitingSession", "Ready", "Done"} =>
            Len(sched'.sink) <= sched'.startTotal
        /\ (sched.state = "Ready" /\ sched'.attempts > sched.attempts) =>
            /\ sched.cred # NoAccount
            /\ accounts[sched.cred].viewsUsedToday < accounts[sched.cred].maxViews
        /\ (sched.state \in {"NoCredential", "AwaitingSession"}
                /\ getNextAvailableAccount(accounts) = NoAccount) =>
            sched'.state = "Done" /\ sched'.outcome = "partial"
      ]_vars

\* a run that ended because the pool ran dry: both credentials served, as many
\* items as the pool had views at the start, and an item is left in the queue
ServedWithinQuotaWitness ==
    /\ sched.state = "Done" /\ sched.outcome = "partial"
    /\ sched.startTotal = 3
    /\ Len(sched.sink) = 3
    /\ sched.rotations = 1
    /\ sched.queue # <<>>
    /\ getNextAvailableAccount(accounts) = NoAccount

\* C4: a successful loadAccounts gives every account whose stored reset date is
\* not today a count of 0 and every account whose stored reset date is today its
\* stored count, in the order of the rows its select returned; and a step that
\* changes any count is a loadAccounts or a consumeView.
LoadResetsStaleCounts ==
    [][ /\ (lastOp'.op = "load" /\ lastOp'.ok) =>
            \E r \in inflight \ inflight' :
                /\ r.kind = "select"
                /\ Len(accounts') = Len(r.rows)
                /\ \A i \in DOMAIN r.rows :
                      /\ accounts'[i].id = r.rows[i].id
                      /\ r.rows[i].last_reset_date # today =>
                            accounts'[i].viewsUsedToday = 0
                      /\ r.rows[i].last_reset_date = today =>
                            accounts'[i].viewsUsedToday = r.rows[i].views_used_today
        /\ UsedOf(accounts') # UsedOf(accounts) =>
            \/ (lastOp'.op = "load" /\ lastOp'.ok)
            \/ lastOp'.op = "consume"
      ]_vars

\* a load has just reset a stale non-zero count, and kept a count stored today
LoadResetWitness ==
    /\ lastOp.op = "load" /\ lastOp.ok
    /\ \E i \in DOMAIN store :
          /\ store[i].last_reset_date # today
          /\ store[i].views_used_today > 0
          /\ accounts[i].viewsUsedToday = 0
    /\ \E i \in DOMAIN store :
          /\ store[i].last_reset_date = today
          /\ store[i].views_used_today > 0
          /\ accounts[i].viewsUsedToday = store[i].views_used_today

\* C5: getNextAvailableAccount returns the first account in load order with
\* viewsUsedToday < maxViews, and null exactly when no account has views left
\* (an empty pool included).
NextAvailableIsFirstFit ==
    LET r == getNextAvailableAccount(accounts) IN
    /\ r \in 0..Len(accounts)
    /\ (r = NoAccount) <=>
          \A i \in DOMAIN accounts : accounts[i].viewsUsedToday >= accounts[i].maxViews
    /\ r # NoAccount =>
          /\ accounts[r].viewsUsedToday < accounts[r].maxViews
          /\ \A j \in 1..(r - 1) : accounts[j].viewsUsedToday >= accounts[j].maxViews

\* the first account has views left and is handed out although a later one has used fewer
FirstFitWitness ==
    /\ Len(accounts) = 2
    /\ accounts[1].viewsUsedToday = 2
    /\ accounts[2].viewsUsedToday = 0
    /\ getNextAvailableAccount(accounts) = 1

\* C10: calculatePriority returns an integer >= 0 for every match and every
\* answer of the cache lookup; a negative sum of the terms is returned as 0.
ScoreIsNatural ==
    sc.phase = "scored" =>
        /\ sc.score \in Nat
        /\ \A now \in Clock :
              calculatePriority(sc.match, sc.cached, now) \in Nat
        /\ \A now \in Clock :
              RawPriority(sc.match, sc.cached, now) < 0 =>
                  calculatePriority(sc.match, sc.cached, now) = 0

\* a finished lower-tier match with a fresh cache row: the terms sum to -65
ScoreClampWitness ==
    /\ sc.phase = "scored"
    /\ RawPriority(sc.match, sc.cached, sc.now) = -65
    /\ sc.score = 0

\* C6: when consumeView(id) of a known id has returned, the count stored for id
\* equals the count in memory, also when the write to the table failed.
ConsumePersistsCount ==
    (lastOp.op = "consumeDone" /\ FindAccount(accounts, lastOp.id) # NoAccount) =>
        store[RowOf(store, lastOp.id)].views_used_today
            = accounts[FindAccount(accounts, lastOp.id)].viewsUsedToday

\* C6, the in-memory part: consumeView(id) of a known id adds exactly 1 to that
\* account's count and changes no other account.
ConsumeAddsExactlyOne ==
    [][ (lastOp'.op = "consume" /\ FindAccount(accounts, lastOp'.id) # NoAccount) =>
            /\ Len(accounts') = Len(accounts)
            /\ \A i \in DOMAIN accounts :
                  accounts'[i] =
                      IF i = FindAccount(accounts, lastOp'.id)
                      THEN [accounts[i] EXCEPT !.viewsUsedToday = @ + 1]
                      ELSE accounts[i]
      ]_vars

\* C7: consumeView of an id that is not in the pool changes no account and
\* writes nothing to the table.
ConsumeUnknownIsNoOp ==
    [][ (lastOp'.op = "consume" /\ FindAccount(accounts, lastOp'.id) = NoAccount) =>
            /\ accounts' = accounts
            /\ store' = store
            /\ inflight' = inflight
      ]_vars

\* consumeView has just been called on a loaded pool with an id it does not hold
ConsumeUnknownWitness ==
    /\ lastOp.op = "consume"
    /\ lastOp.id = ForeignId
    /\ Len(accounts) = 2
    /\ getTotalAvailableViews(accounts) > 0

RECURSIVE SumMax(_)
SumMax(accs) == IF accs = <<>> THEN 0 ELSE Head(accs).maxViews + SumMax(Tail(accs))
RECURSIVE SumUsed(_)
SumUsed(accs) == IF accs = <<>> THEN 0 ELSE Head(accs).viewsUsedToday + SumUsed(Tail(accs))

\* C3: after any interleaving of consumeView and forceExhaust calls,
\* getTotalAvailableViews is the sum of maxViews minus the sum of viewsUsedToday
\* over this.accounts (whatever the table holds), and a consumeView of a known
\* account that has views left lowers it by exactly 1.
TotalIsSumInMemory ==
    [][ /\ getTotalAvailableViews(accounts') = SumMax(accounts') - SumUsed(accounts')
        /\ ( /\ lastOp'.op = "consume"
             /\ FindAccount(accounts, lastOp'.id) # NoAccount
             /\ HasViewsLeft(accounts[FindAccount(accounts, lastOp'.id)]) ) =>
                getTotalAvailableViews(accounts') = getTotalAvailableViews(accounts) - 1
      ]_vars

\* a consumeView whose write failed, beside an account exhausted by force: the
\* table's counts differ from the pool's
TotalWitness ==
    /\ lastOp.op = "consumeDone" /\ ~lastOp.ok
    /\ FindAccount(accounts, lastOp.id) # NoAccount
    /\ accounts[FindAccount(accounts, lastOp.id)].viewsUsedToday = 2
    /\ \E i \in DOMAIN accounts :
          /\ accounts[i].id # lastOp.id
          /\ accounts[i].viewsUsedToday = accounts[i].maxViews
          /\ store[i].last_reset_date = today
          /\ store[i].views_used_today = 0
    /\ getTotalAvailableViews(accounts) = 1

\* C8: forceExhaust(id) sets viewsUsedToday of account id to maxViews whatever
\* it was, getTotalAvailableViews changes by exactly the views the account had
\* left, and from then on (until the pool is loaded again) an account without
\* views left stays so and getNextAvailableAccount does not return it.
ForceExhaustRetires ==
    [][ /\ (lastOp'.op = "exhaust" /\ FindAccount(accounts, lastOp'.id) # NoAccount) =>
            LET i == FindAccount(accounts, lastOp'.id) IN
            /\ accounts'[i].viewsUsedToday = accounts[i].maxViews
            /\ getNextAvailableAccount(accounts') # i
            /\ getTotalAvailableViews(accounts') =
                  getTotalAvailableViews(accounts)
                      - (accounts[i].maxViews - accounts[i].viewsUsedToday)
            /\ \A j \in DOMAIN accounts : j # i => accounts'[j] = accounts[j]
        /\ lastOp'.op # "load" =>
            \A i \in DOMAIN accounts :
                ~HasViewsLeft(accounts[i]) =>
                    /\ ~HasViewsLeft(accounts'[i])
                    /\ getNextAvailableAccount(accounts') # i
      ]_vars

\* forceExhaust has just retired the first account, which had 2 views left, and
\* the pool hands out the second
ForceExhaustWitness ==
    /\ lastOp.op = "exhaust"
    /\ Len(accounts) = 2
    /\ lastOp.id = accounts[1].id
    /\ accounts[1].viewsUsedToday = accounts[1].maxViews
    /\ store[1].last_reset_date = today
    /\ store[1].views_used_today = 1
    /\ getNextAvailableAccount(accounts) = 2

ScoreIsFunctionOfInputs ==
    [][ (sc.phase = "scored" /\ sc'.phase = "scored"
            /\ sc'.match = sc.match /\ sc'.cached = sc.cached) =>
            sc'.score = sc.score
      ]_vars

\* the match with the ranking of player 1 or player 2 replaced
WithRanking1(match, r) == [match EXCEPT !.player1.ranking = r]
WithRanking2(match, r) == [match EXCEPT !.player2.ranking = r]
\* a ranking as a position on the numeric scale, a missing one after every number
RankNumber(r) == IF r = Null THEN 1000 ELSE r
\* r1 is at least as good a rank as r2, both numbered from 1, or r2 is no rank
\* (null or 0)
RanksNoWorse(r1, r2) == Truthy(r1) /\ (Truthy(r2) => r1 <= r2)

\* C12, as stated: over the whole domain (0 and null included) the match whose
\* better-ranked player has the smaller rank number scores at least as high.
RankMonotoneWholeDomain ==
    sc.phase = "scored" =>
        \A r \in Rankings :
            (/\ RankNumber(r) <= RankNumber(sc.match.player1.ranking)
             /\ RankNumber(sc.match.player1.ranking) <= RankNumber(sc.match.player2.ranking))
            => calculatePriority(WithRanking1(sc.match, r), sc.cached, sc.at) >= sc.score

\* C12, amended: between rankings numbered from 1 the smaller number scores at
\* least as high, and a player with a numbered ranking scores at least as high
\* as the same player with no ranking (null or 0), for either player.
RankMonotoneOnNumberedRanks ==
    sc.phase = "scored" =>
        \A r \in Rankings :
            /\ RanksNoWorse(r, sc.match.player1.ranking) =>
                  calculatePriority(WithRanking1(sc.match, r), sc.cached, sc.at) >= sc.score
            /\ RanksNoWorse(r, sc.match.player2.ranking) =>
                  calculatePriority(WithRanking2(sc.match, r), sc.cached, sc.at) >= sc.score

\* a scored match of an unranked pair that scores 30 higher once player 1 is
\* ranked 8th
RankMonotoneWitness ==
    /\ sc.phase = "scored"
    /\ sc.match.player1.ranking = 150
    /\ sc.match.player2.ranking = Null
    /\ sc.score > 0
    /\ calculatePriority(WithRanking1(sc.match, 8), sc.cached, sc.at) = sc.score + 30

\* C13: a match scores at least as high when the lookup finds no row as when it
\* finds a row updated within the last 30 days, and as when it finds an older row.
FreshnessMonotone ==
    (sc.phase = "scored" /\ sc.cached # NoRow) =>
        calculatePriority(sc.match, NoRow, sc.at) >= sc.score

\* a match scored on a row updated within 30 days, 35 below its never-scraped score
FreshnessFreshWitness ==
    /\ sc.phase = "scored"
    /\ sc.cached # NoRow
    /\ daysSince(sc.cached, sc.at) <= 30
    /\ sc.score > 0
    /\ calculatePriority(sc.match, NoRow, sc.at) = sc.score + 35

\* ----------------------------------------------- claims on the allocation

\* C14: allocateViews returns the allocations of its matches, each once, sorted
\* by priority from high to low, two of equal priority in the order their
\* matches had in the input; the sequence is fixed by the matches and their
\* priorities.
AllocationSortedStable ==
    sc.phase = "allocated" =>
        /\ Len(sc.result) = Len(sc.matches)
        /\ Len(sc.pushed) = Len(sc.matches)
        /\ \A key \in DOMAIN sc.matches :
              /\ sc.pushed[key].matchH2hPath = key
              /\ \E i \in DOMAIN sc.result : sc.result[i] = sc.pushed[key]
        /\ \A i, j \in DOMAIN sc.result :
              i < j =>
                 /\ sc.result[i].priority >= sc.result[j].priority
                 /\ sc.result[i].priority = sc.result[j].priority =>
                       sc.result[i].matchH2hPath < sc.result[j].matchH2hPath

\* three matches came back with the last of the input first and the other
\* two, of equal priority above 0, in the order of the input
AllocationSortedWitness ==
    /\ sc.phase = "allocated"
    /\ Len(sc.result) = 3
    /\ sc.result[1].matchH2hPath = 3
    /\ sc.result[2].matchH2hPath = 1
    /\ sc.result[3].matchH2hPath = 2
    /\ sc.result[1].priority > sc.result[2].priority
    /\ sc.result[2].priority = sc.result[3].priority
    /\ sc.result[3].priority > 0

\* C15: every allocation returned has a priority above the cutoff, and so above
\* 0: a match that scores 0 is not returned.
AllocationAboveCutoff ==
    sc.phase = "allocated" =>
        \A i \in DOMAIN sc.result : sc.result[i].priority > 0

\* C16: what allocateViews returns is the same for every availableViews and is
\* as long as the input, also when that is more than availableViews; the count
\* of matches needing fresh data only goes to the log, no allocation carries an
\* account, and the pool and the accounts table are left as they were.
AllocationIgnoresAvailableViews ==
    [][ /\ (sc.phase # "allocated" /\ sc'.phase = "allocated") =>
            /\ \A a \in 0..(Cardinality(RowIds) * VIEWS_PER_ACCOUNT) :
                  sc'.result = allocateViews(SortByPriority(sc'.pushed), a)
            /\ Len(sc'.result) = Len(sc.matches)
            /\ \A i \in DOMAIN sc'.result : sc'.result[i].assignedAccountId = Null
            /\ sc'.allocating = Min(sc.availableViews, sc'.uncachedCount)
        /\ sc'.matches = sc.matches
        /\ sc'.availableViews = sc.availableViews
        /\ accounts' = accounts
        /\ store' = store
        /\ inflight' = inflight
      ]_vars

\* with the pool loaded, three matches were returned for one available view, two
\* of them counted as needing fresh data
AllocationNotTruncatedWitness ==
    /\ sc.phase = "allocated"
    /\ accounts # <<>>
    /\ sc.availableViews = 1
    /\ Len(sc.result) = 3
    /\ sc.uncachedCount = 2
    /\ sc.allocating = 1

\* C17: a finished match scores 0, whatever its tournament, rankings, odds, form
\* scores and cache row.
ConcludedScoresZero ==
    (sc.phase = "scored" /\ sc.match.status = "finished") => sc.score <= 0

\* ------------------------------------------------ claims on the scheduler

Running(s) == s.state \in {"NoCredential", "AwaitingSession", "Ready", "Done"}
NothingFailed(s) == s.loginFailures = 0 /\ s.errors = 0 /\ s.limitsReached = 0
\* the items of the run, served or left
ItemsOf(s) == Len(s.sink) + Len(s.queue)
\* the current credential is used up and the pool has another one
RotationDue(s, accs) ==
    /\ s.state = "NoCredential"
    /\ s.cred # NoAccount
    /\ ~HasViewsLeft(accs[s.cred])
    /\ getNextAvailableAccount(accs) # NoAccount

\* C18: a run in which every login and every fetch succeeds ends with the first
\* min(N, Q) of its N items served in rank order and the other N - min(N, Q)
\* left in the queue, Q being getTotalAvailableViews at the start; and a step
\* rotates to another credential exactly when the current one is used up, items
\* are left and the pool has another credential.
AllSucceedServesMin ==
    [][ /\ (sched'.state = "Done" /\ NothingFailed(sched')) =>
            LET served == Min(ItemsOf(sched'), sched'.startTotal) IN
            /\ sched'.sink = [i \in 1..served |-> i]
            /\ sched'.queue = [i \in 1..(ItemsOf(sched') - served) |-> served + i]
            /\ sched'.attempts = served
            /\ sched'.outcome = IF served = ItemsOf(sched') THEN "success" ELSE "partial"
        /\ (Running(sched) /\ NothingFailed(sched')) =>
            /\ sched'.rotations = sched.rotations + (IF RotationDue(sched, accounts) THEN 1 ELSE 0)
            /\ RotationDue(sched, accounts) =>
                  /\ sched'.cred = getNextAvailableAccount(accounts)
                  /\ sched'.cred # sched.cred
                  /\ sched.queue # <<>>
      ]_vars

\* two credentials of 3 views and 8 items: 6 served, 2 left, 1 rotation
AllSucceedWitness ==
    /\ sched.state = "Done"
    /\ NothingFailed(sched)
    /\ sched.startTotal = 6
    /\ accounts[1].viewsUsedToday = 3
    /\ accounts[2].viewsUsedToday = 3
    /\ Len(sched.sink) = 6
    /\ Len(sched.queue) = 2
    /\ sched.attempts = 6
    /\ sched.rotations = 1
    /\ sched.outcome = "partial"

\* C19: a LimitReached fetch sets the current credential's count to its maximum,
\* drops the session and leaves queue, sink and error count alone; the queue
\* stays as it is until the next fetch, which is issued on a credential with
\* views left; a run that then empties the queue has served every item it did
\* not skip on an error, with one attempt more per LimitReached; and a run that
\* finds no credential left (none with views that it has not abandoned) ends
\* partial with the item in the queue and no error counted for it.
LimitReachedRetriesItem ==
    [][ /\ (sched.state = "Ready" /\ sched'.limitsReached = sched.limitsReached + 1) =>
            /\ accounts'[sched.cred].viewsUsedToday = accounts[sched.cred].maxViews
            /\ \A i \in DOMAIN accounts :
                  i # sched.cred => accounts'[i] = accounts[i]
            /\ sched'.state = "NoCredential"
            /\ sched'.session = NoCookies
            /\ sched'.queue = sched.queue
            /\ sched'.sink = sched.sink
            /\ sched'.errors = sched.errors
            /\ sched'.attempts = sched.attempts + 1
        /\ sched.state \in {"NoCredential", "AwaitingSession"} =>
            /\ sched'.queue = sched.queue
            /\ sched'.errors = sched.errors
            /\ sched'.attempts = sched.attempts
            /\ sched'.state = "Ready" => HasViewsLeft(accounts'[sched'.cred])
            /\ sched'.state = "Done" =>
                  /\ \A i \in DOMAIN accounts :
                        HasViewsLeft(accounts[i]) => i \in sched'.failed
                  /\ sched'.outcome = "partial"
                  /\ sched'.queue # <<>>
        /\ (Running(sched) /\ sched'.state = "Done" /\ sched'.outcome = "success") =>
            /\ sched'.queue = <<>>
            /\ Len(sched'.sink) + sched'.errors = ItemsOf(sched) + sched.errors
            /\ sched'.attempts = Len(sched'.sink) + sched'.errors + sched'.limitsReached
      ]_vars

\* items 1 and 2 served on credential 1, item 3 answered LimitReached there with
\* one view left, then items 3 and 4 served on credential 2: all 4 served in 5
\* attempts
LimitReachedWitness ==
    /\ sched.state = "Done"
    /\ sched.outcome = "success"
    /\ sched.limitsReached = 1
    /\ sched.errors = 0
    /\ sched.loginFailures = 0
    /\ sched.rotations = 1
    /\ sched.sink = <<1, 2, 3, 4>>
    /\ sched.attempts = 5
    /\ accounts[1].viewsUsedToday = 3
    /\ accounts[2].viewsUsedToday = 2

\* the credentials with views left that the run has not abandoned
Remaining(accs, abandoned) ==
    {i \in DOMAIN accs : HasViewsLeft(accs[i]) /\ i \notin abandoned}

\* C20: a failed login changes no count and marks no credential exhausted,
\* leaves the queue as it is, and hands the head of the queue to the next
\* credential: the first one in load order with views left that the run has not
\* abandoned, which is another one than the credential that failed; the run
\* goes to Done exactly when no such credential remains.
LoginFailureMovesOn ==
    [][ (sched.state = "AwaitingSession" /\ Running(sched')
            /\ sched'.loginFailures = sched.loginFailures + 1) =>
            /\ accounts' = accounts
            /\ store' = store
            /\ HasViewsLeft(accounts'[sched.cred])
            /\ sched'.queue = sched.queue
            /\ sched'.sink = sched.sink
            /\ sched'.attempts = sched.attempts
            /\ sched'.failed = sched.failed \cup {sched.cred}
            /\ sched'.state \in {"AwaitingSession", "Done"}
            /\ sched'.state = "AwaitingSession" =>
                  /\ sched'.cred # sched.cred
                  /\ sched'.cred \in Remaining(accounts, sched'.failed)
                  /\ \A i \in Remaining(accounts, sched'.failed) : sched'.cred <= i
                  /\ sched'.session = NoCookies
            /\ sched'.state = "Done" <=> Remaining(accounts, sched'.failed) = {}
      ]_vars

\* the login of credential 1 failed with its 3 views unspent, and credential 2
\* has served the first item of the queue
LoginFailureWitness ==
    /\ sched.state = "Ready"
    /\ sched.loginFailures = 1
    /\ sched.failed = {1}
    /\ sched.cred = 2
    /\ sched.rotations = 1
    /\ sched.sink = <<1>>
    /\ sched.attempts = 1
    /\ accounts[1].viewsUsedToday = 0
    /\ accounts[2].viewsUsedToday = 1

\* C21: a TransientError fetch adds one to the error count, changes no account
\* and no row, takes the item off the queue and leaves the sink, the credential
\* and the session as they were, so the next item, if there is one, is fetched
\* on them; the queue only ever loses its head, so the item is not fetched again.
TransientErrorSkipsItem ==
    [][ /\ (sched.state = "Ready" /\ sched'.errors = sched.errors + 1) =>
            /\ accounts' = accounts
            /\ store' = store
            /\ sched'.queue = Tail(sched.queue)
            /\ sched'.sink = sched.sink
            /\ sched'.attempts = sched.attempts + 1
            /\ sched'.cred = sched.cred
            /\ sched'.session = sched.session
            /\ sched'.state = IF sched'.queue = <<>> THEN "Done" ELSE "Ready"
        /\ (Running(sched) /\ Running(sched')) =>
            /\ sched'.queue \in {sched.queue, Tail(sched.queue)}
            /\ \A i, j \in DOMAIN sched.queue : i < j => sched.queue[i] < sched.queue[j]
            /\ \A i \in DOMAIN sched.sink, j \in DOMAIN sched.queue :
                  sched.sink[i] < sched.queue[j]
      ]_vars

\* item 1 failed on credential 1, items 2 and 3 were then served on the same
\* credential and session
TransientErrorWitness ==
    /\ sched.state = "Ready"
    /\ sched.errors = 1
    /\ sched.sink = <<2, 3>>
    /\ sched.queue = <<4>>
    /\ sched.attempts = 3
    /\ sched.rotations = 0
    /\ sched.cred = 1
    /\ sched.session # NoCookies
    /\ accounts[1].viewsUsedToday = 2
    /\ sched.startTotal = 6

\* C22: every run ends, in Done (or aborted at the load), whatever the logins
\* and fetches answer; it ends as success exactly when the queue is empty and as
\* partial exactly when items are left and no credential is (none with views
\* left that the run has not abandoned).
RunReachesDone ==
    /\ <>(sched.state \in {"Done", "Aborted"})
    /\ [](sched.state = "Done" =>
            /\ sched.outcome \in {"success", "partial"}
            /\ sched.outcome = "success" <=> sched.queue = <<>>
            /\ sched.outcome = "partial" <=>
                  (sched.queue # <<>> /\ Remaining(accounts, sched.failed) = {}))

\* a run that ended partial because the logins of both credentials failed while
\* each still had views: nothing fetched, the items left in the queue
RunEndsOnLoginFailuresWitness ==
    /\ sched.state = "Done"
    /\ sched.outcome = "partial"
    /\ sched.loginFailures = 2
    /\ sched.failed = {1, 2}
    /\ sched.attempts = 0
    /\ sched.queue # <<>>
    /\ HasViewsLeft(accounts[1])
    /\ HasViewsLeft(accounts[2])

\* C23: once a credential has answered a login with a failure or a fetch with
\* LimitReached, the run attempts no login and no fetch with it.
FailedCredentialNotRetried ==
    [][ (Running(sched) /\ Running(sched')) =>
            /\ (sched.state = "AwaitingSession"
                    /\ accounts[sched.cred].cookies = NoCookies
                    /\ sched' # sched) => sched.cred \notin sched.failed
            /\ sched'.attempts = sched.attempts + 1 => sched.cred \notin sched.failed
      ]_vars

\* credential 1 answered the fetch of item 2 with LimitReached, the login of
\* credential 2 failed, and the run ended with item 2 left and no further attempt
FailedCredentialsWitness ==
    /\ sched.state = "Done"
    /\ sched.outcome = "partial"
    /\ sched.failed = {1, 2}
    /\ sched.limitsReached = 1
    /\ sched.loginFailures = 1
    /\ sched.sink = <<1>>
    /\ sched.attempts = 2
    /\ HasViewsLeft(accounts[2])

\* C25: a Success fetch appends the head of the queue to the sink, takes it off
\* the queue and adds exactly one view to the credential that served it and to
\* no other; no item is in the sink twice; a login failure or a TransientError
\* changes no count, and while no LimitReached has occurred the views spent
\* since the start equal the items served.
SuccessSpendsOneView ==
    [][ (Running(sched) /\ Running(sched')) =>
            /\ Len(sched'.sink) = Len(sched.sink) + 1 =>
                  /\ sched.state = "Ready"
                  /\ sched'.sink = Append(sched.sink, Head(sched.queue))
                  /\ sched'.queue = Tail(sched.queue)
                  /\ sched'.attempts = sched.attempts + 1
                  /\ accounts' = [accounts EXCEPT ![sched.cred].viewsUsedToday = @ + 1]
            /\ Len(sched'.sink) \in {Len(sched.sink), Len(sched.sink) + 1}
            /\ \A i, j \in DOMAIN sched'.sink : i # j => sched'.sink[i] # sched'.sink[j]
            /\ (sched'.errors # sched.errors \/ sched'.loginFailures # sched.loginFailures) =>
                  UsedOf(accounts') = UsedOf(accounts)
            /\ (Len(sched'.sink) = Len(sched.sink)
                    /\ sched'.limitsReached = sched.limitsReached) =>
                  UsedOf(accounts') = UsedOf(accounts)
            /\ sched'.limitsReached = 0 =>
                  getTotalAvailableViews(accounts') = sched'.startTotal - Len(sched'.sink)
      ]_vars

\* a run of 4 items with a failed login and a failed fetch on the way: 3 items
\* served, 3 views spent
SuccessSpendsWitness ==
    /\ sched.state = "Done"
    /\ sched.sink = <<1, 2, 4>>
    /\ sched.errors = 1
    /\ sched.loginFailures = 1
    /\ sched.limitsReached = 0
    /\ sched.attempts = 4
    /\ sched.startTotal = 5
    /\ getTotalAvailableViews(accounts) = 2

\* C26: a fetch is issued in Ready only, with a session that is the cookies the
\* pool holds for the current credential and that this credential's login
\* produced, and on a credential with views left; in NoCredential and
\* AwaitingSession the run holds no session, and a session dropped on
\* exhaustion or LimitReached is not the session of a later fetch.
FetchUsesOwnSession ==
    [][ (Running(sched) /\ Running(sched')) =>
            /\ sched'.attempts # sched.attempts =>
                  /\ sched.state = "Ready"
                  /\ sched.session # NoCookies
                  /\ sched.session = accounts[sched.cred].cookies
                  /\ SessionCredential(sched.session) = accounts[sched.cred].id
                  /\ sched.session \notin sched.dropped
                  /\ HasViewsLeft(accounts[sched.cred])
            /\ sched'.state \in {"NoCredential", "AwaitingSession"} =>
                  sched'.session = NoCookies
            /\ sched'.state = "Ready" =>
                  /\ sched'.session # NoCookies
                  /\ sched'.session = accounts'[sched'.cred].cookies
                  /\ SessionCredential(sched'.session) = accounts'[sched'.cred].id
                  /\ sched'.session \notin sched'.dropped
            /\ sched.dropped \subseteq sched'.dropped
      ]_vars

\* credential 1 was used up on a session from a login whose write to the table
\* failed and that session was dropped; item 4 is being fetched on credential 2
\* with its own cached session
FetchSessionWitness ==
    /\ sched.state = "Ready"
    /\ sched.cred = 2
    /\ sched.rotations = 1
    /\ sched.sink = <<1, 2, 3>>
    /\ accounts[1].cookies # NoCookies
    /\ sched.dropped = {accounts[1].cookies}
    /\ SessionCredential(accounts[1].cookies) = 1
    /\ store[1].session_cookies = NoCookies
    /\ store[2].session_cookies # NoCookies
    /\ sched.session = accounts[2].cookies
    /\ SessionCredential(sched.session) = 2

\* ------------------------------------------- claims on the two thresholds

\* the match with its two players exchanged
SwapPlayers(match) ==
    [match EXCEPT !.player1 = match.player2, !.player2 = match.player1]

\* C27: a match and the same match with player1 and player2 exchanged get the
\* same priority, equal form scores and equal odds included.
ScoreSymmetricInPlayers ==
    sc.phase = "scored" =>
        calculatePriority(SwapPlayers(sc.match), sc.cached, sc.at) = sc.score

\* C28: a match that calculateViewsNeeded counts as needing fresh data (no row,
\* or a row updated more than 7 days ago) gets a cache term of 0 or more in
\* calculatePriority.
UncachedNeverPenalised ==
    sc.phase = "scored" =>
        (calculateViewsNeeded(<<[matchH2hPath |-> 1]>>, <<sc.cached>>, <<sc.at>>) = 1
            => CacheBonus(sc.cached, sc.at) >= 0)

\* ------------------------------------------------- run(), cookie mode (v2)
\* the three ways scraper.scrapeH2HWithCookies(url, cookies) ends: an H2HData,
\* null (no data rows on the page), or the error of the page rethrown
H2HResults == {"data", "null", "throw"}

\* db.getActiveAccount(): the first active row with cookies, as its position in
\* the table; NoAccount (null) when the select fails or matches no row
getActiveAccount(rows, readable) ==
    LET withCookies == {i \in DOMAIN rows : rows[i].session_cookies # NoCookies}
    IN  IF ~readable \/ withCookies = {}
        THEN NoAccount
        ELSE CHOOSE i \in withCookies : \A j \in withCookies : i <= j

\* the locals of run() once scraper.init() has been awaited
ProcStarted(browser) ==
    [ pc            |-> "account",
      browser       |-> browser,
      readable      |-> TRUE,
      account       |-> NoAccount,
      dailyUpserted |-> FALSE,
      upcoming      |-> 0,
      i             |-> 0,
      successCount  |-> 0,
      errorCount    |-> 0,
      cookieExpired |-> FALSE,
      results       |-> <<>>,
      closeCalled   |-> FALSE,
      exitCode      |-> Null ]

\* process.exit(code): the process ends there, no finally block runs
processExit(p, code) == [p EXCEPT !.pc = "exited", !.exitCode = code]

\* db.upsertH2H(h2hData) throws before it writes: it reads
\* h2hData.h2hRecord.player1Wins, and the H2HData scrapeH2HWithCookies builds
\* has no h2hRecord (TypeError)
upsertH2HThrows(r) == r = "data"

\* one iteration of the H2H loop on upcoming[p.i], the fetch ending with r; an
\* error thrown by the fetch or by upsertH2H is caught and counted
h2hIteration(p, r) ==
    LET caught     == r = "throw" \/ upsertH2HThrows(r)
        errorCount == IF r = "null" \/ caught THEN p.errorCount + 1 ELSE p.errorCount
        break      == r = "null" /\ p.i < 3 /\ errorCount >= 3
    IN  [p EXCEPT !.results       = Append(@, r),
                  !.successCount  = IF r = "data" /\ ~caught THEN @ + 1 ELSE @,
                  !.errorCount    = errorCount,
                  !.cookieExpired = break,
                  !.i             = IF break THEN @ ELSE @ + 1,
                  !.pc            = IF break \/ p.i + 1 >= p.upcoming
                                    THEN "summary" ELSE "h2h"]

\* the table run() reads: active rows, with or without exported cookies
InitCookieRun ==
    /\ store \in [1..Cardinality(RowIds) ->
                    [ id : RowIds, views_used_today : {0}, last_reset_date : {1},
                      session_cookies : {NoCookies} \cup CookieValues ]]
    /\ \A i \in DOMAIN store : store[i].id = i
    /\ today = 1
    /\ accounts = <<>>
    /\ lastOp = Op("new", NoAccount, NoCookies, TRUE)
    /\ inflight = {}
    /\ sched = SchedIdle
    /\ sc = ScoreIdle
    /\ proc = ProcIdle

\* scraper.init(): puppeteer.launch resolves
ScraperInit ==
    /\ proc.pc = "idle"
    /\ proc' = ProcStarted(TRUE)
    /\ UNCHANGED <<store, today, accounts, lastOp, inflight, sched, sc>>

\* scraper.init(): puppeteer.launch rejects; the outer catch exits
ScraperInitThrows ==
    /\ proc.pc = "idle"
    /\ proc' = processExit(ProcStarted(FALSE), 1)
    /\ UNCHANGED <<store, today, accounts, lastOp, inflight, sched, sc>>

\* Step 1: db.getActiveAccount() and the "No cookies found" exit
GetActiveAccount ==
    /\ proc.pc = "account"
    /\ \E readable \in BOOLEAN :
        LET account == getActiveAccount(store, readable)
            loaded  == [proc EXCEPT !.readable = readable, !.account = account]
        IN  proc' = IF account = NoAccount
                       \/ store[account].session_cookies = NoCookies
                    THEN processExit(loaded, 1)
                    ELSE [loaded EXCEPT !.pc = "daily"]
    /\ UNCHANGED <<store, today, accounts, lastOp, inflight, sched, sc>>

\* Step 2: scrapeDailyMatches, the two filters and upsertDailyMatches; Step 3
\* has no iteration (DAYS_BACK = 0); n matches are upcoming with an h2hUrl
ScrapeDailyMatches ==
    /\ proc.pc = "daily"
    /\ \E n \in 0..MaxUpcoming :
        proc' = [proc EXCEPT !.dailyUpserted = TRUE,
                             !.upcoming = n,
                             !.pc = IF n = 0 THEN "summary" ELSE "h2h"]
    /\ UNCHANGED <<store, today, accounts, lastOp, inflight, sched, sc>>

\* Step 2: scrapeDailyMatches rejects (page.goto); the outer catch exits
ScrapeDailyMatchesThrows ==
    /\ proc.pc = "daily"
    /\ proc' = processExit(proc, 1)
    /\ UNCHANGED <<store, today, accounts, lastOp, inflight, sched, sc>>

\* Step 4: one iteration of the loop over upcoming
ScrapeH2HWithCookies ==
    /\ proc.pc = "h2h"
    /\ \E r \in H2HResults : proc' = h2hIteration(proc, r)
    /\ UNCHANGED <<store, today, accounts, lastOp, inflight, sched, sc>>

\* the summary, then finally { await scraper.close() }; run() returns
ScraperClose ==
    /\ proc.pc = "summary"
    /\ proc' = [proc EXCEPT !.pc = "returned", !.browser = FALSE,
                            !.closeCalled = TRUE, !.exitCode = 0]
    /\ UNCHANGED <<store, today, accounts, lastOp, inflight, sched, sc>>

NextCookieRun ==
    \/ ScraperInit
    \/ ScraperInitThrows
    \/ GetActiveAccount
    \/ ScrapeDailyMatches
    \/ ScrapeDailyMatchesThrows
    \/ ScrapeH2HWithCookies
    \/ ScraperClose

SpecCookieRun == InitCookieRun /\ [][NextCookieRun]_vars

\* ------------------------------------------------------- claims on run()
\* run() is over: it returned or the process was exited
ProcEnded == proc.pc \in {"returned", "exited"}
\* the fetch attempts of the loop that ended without data
Failed(r) == r \in {"null", "throw"}

\* C24: when the accounts table cannot be read, no detail item is fetched in
\* the run, and the day's homepage matches are still scraped and saved
UnreadableStoreKeepsDailyCollection ==
    (ProcEnded /\ ~proc.readable) =>
        (proc.results = <<>> /\ proc.dailyUpserted)

\* C29: the loop stops early with cookieExpired exactly when the first three
\* attempts all fail, by null or by a thrown error; after stopping nothing is
\* fetched, otherwise every upcoming item is attempted once, and the two
\* counters add up to the number of attempts
LoopStopsOnThreeFailures ==
    proc.pc \in {"summary", "returned"} =>
        /\ proc.cookieExpired <=>
              (Len(proc.results) >= 3 /\ \A k \in 1..3 : Failed(proc.results[k]))
        /\ proc.cookieExpired => Len(proc.results) = 3
        /\ ~proc.cookieExpired => Len(proc.results) = proc.upcoming
        /\ proc.successCount + proc.errorCount = Len(proc.results)

\* C30: however run() ends, scraper.close() has been called and the browser
\* is closed
BrowserClosedOnEveryExit ==
    ProcEnded => (proc.closeCalled /\ ~proc.browser)
====
